---- MODULE Spec2Model ----
(***************************************************************************)
(* Model of the answer-generation pipeline of the RAG assistant:          *)
(*   backend/app/services/rag_service.py  (RAGService)                     *)
(*   backend/app/api/routes.py            (ask_question, ask_from_audio)   *)
(* Spec follows one request from the call of generate_answer or           *)
(* generate_answer_stream to its completion.  The external capabilities   *)
(* (Generator, Embedder, VectorIndex, Reranker) are the environment: each *)
(* call either returns a value drawn from a small set or raises.          *)
(* SpecConc follows several requests at once on one RAGService.           *)
(***************************************************************************)
EXTENDS Integers, Sequences, FiniteSets, TLC

VARIABLES
    mode,       \* "none" | "ask" | "stream": which entry operation runs
    via,        \* "service" | "route" | "audio": direct call, POST /ask or
                \* POST /ask-audio
    pc,         \* position of the request in the pipeline
    req,        \* the arguments of the call
    lc_history, \* chat_history converted to HumanMessage/AIMessage
    chain,      \* the retrieval plan built by _get_rag_chain
    question,   \* the text handed to the retriever
    pending,    \* searches still to run for the current retrieval
    lists,      \* the searches of the running retriever, one per query text
    completed,  \* the searches that have returned, in the order they did
    embedded,   \* the texts handed to the Embedder so far
    tasks,      \* the local variables of each of the concurrent requests
    service,    \* the attributes of the one RAGService the requests share
    docs,       \* passages returned by the base retriever
    context,    \* passages after re-ranking (response["context"])
    answer,     \* response["answer"]
    confidence, \* value of _calculate_confidence, in units of 1/Scale
    result,     \* <<d>> once generate_answer has returned dictionary d
    raised,     \* exceptions raised by generate_answer to its caller
    http,       \* <<r>> once the route has responded with r
    events,     \* dictionaries yielded by generate_answer_stream
    calls,      \* capability calls made so far, in order
    fault,      \* <<e>> once a capability call of the pipeline has raised e
    validation, \* <<o>> once the Generator has been asked to validate
    stt_pc,         \* position of the running transcribe_audio call
    audio_path,     \* its argument
    processed_path, \* what preprocess_audio returned to it
    chunk_i,        \* the loop variable i of _transcribe_chunked
    cache,          \* WhisperSTTService.cache: hash -> <<result>> or <<>>
    files,          \* the files that exist on disk
    runs,           \* hash -> number of calls that ran the speech model
    transcribed,    \* hashes of the files a call has transcribed and returned
    stt_out,        \* what the last finished call returned or raised
    stt_calls       \* number of transcribe_audio calls made so far

request_vars == <<mode, via, pc, req, lc_history, chain, question, pending, lists,
                  completed, embedded, docs,
                  context, answer, confidence, result, raised, http, events, calls,
                  fault, validation>>

stt_vars == <<stt_pc, audio_path, processed_path, chunk_i, cache, files, runs,
              transcribed, stt_out, stt_calls>>

vars == <<request_vars, tasks, service, stt_vars>>

-----------------------------------------------------------------------------
(* Bounds of the model *)

\* number of passages the index may return for one search
NumDocs == 6
\* most fragments the Generator streams for one answer
MaxTokens == 2
\* most paraphrases the Generator writes for query expansion
MaxQueries == 2
\* requests running at the same time on one RAGService
NumTasks == 2
\* transcribe_audio calls made on one WhisperSTTService
MaxCalls == 3

-----------------------------------------------------------------------------
(* Program constants *)

TopN == 5
K == 10
SnippetLen == 200

-----------------------------------------------------------------------------
(* Values *)

NoReq == [query |-> "", chat_history |-> <<>>, filters |-> FALSE,
          enable_query_expansion |-> FALSE, enable_hyde |-> FALSE,
          use_rag |-> TRUE]

Queries == {"what is the policy"}

\* a query of nothing but whitespace, and what speech-to-text may return
BlankQueries == {"   "}
Transcripts == Queries \cup BlankQueries \cup {""}

\* str.strip() of a query: only blank and non-blank are told apart
StripQuery(q) == IF q \in BlankQueries \cup {""} THEN "" ELSE q
Answers == {"the limit is five", "not enough information"}
Fragments == {"tok"}

\* chat histories of the callers, each the roles of its turns: none, one
\* exchange, only an unrecognised role, and a mix
Histories ==
    { <<>>, <<"user", "assistant">>, <<"system">>,
      <<"assistant", "system", "user">> }

\* Relevance logits the cross-encoder may give the passage at position i: a
\* low one, for every third position a high one as well, and for the first
\* position one beyond the range of math.exp
LogitVals(i) ==
    IF i = 1 THEN {-800, -1, 800}
    ELSE IF i % 3 = 0 THEN {-1, 800}
    ELSE {-1}

\* the scorings of n passages
Scorings(n) == {f \in [1..n -> {-800, -1, 800}] : \A i \in 1..n : f[i] \in LogitVals(i)}

\* An exception raised by a capability: what went wrong, and whether its text
\* contains "Connect call failed" or "Cannot connect to host".
Excs == { [kind |-> "connectivity", phrase |-> TRUE],
          [kind |-> "connectivity", phrase |-> FALSE],
          [kind |-> "other",        phrase |-> FALSE] }

Min(a, b) == IF a < b THEN a ELSE b

-----------------------------------------------------------------------------
(* The indexed corpus.  Passage i carries the metadata the ingestion put   *)
(* on it; "source" and "page" may be missing from the metadata.            *)

HasSource(i) == i % 3 # 0
DocSource(i) == IF i % 2 = 0 THEN <<"data", "docs", "b.pdf">> ELSE <<"a.pdf">>
HasPage(i) == i % 4 # 0
DocPage(i) == IF i = 5 THEN 1 ELSE i
DocLen(i) == IF i % 2 = 0 THEN 150 ELSE 250

\* the text of chunk i: chunk 5 repeats the text of chunk 1 of the same file,
\* and differs from it in the chunk_index of its metadata only
DocContent(i) == IF i = 5 THEN 1 ELSE i
ChunkIndex(i) == i

\* what identifies a passage for the caller: source, page and content
Key(doc) ==
    <<IF HasSource(doc.id) THEN DocSource(doc.id) ELSE <<>>,
      IF HasPage(doc.id) THEN DocPage(doc.id) ELSE 0,
      DocContent(doc.id)>>

\* Document(page_content, metadata) as returned by the base retriever:
\* no "relevance_score" in the metadata yet
Passage(i) == [id |-> i, has_score |-> FALSE, relevance_score |-> 0]

-----------------------------------------------------------------------------
(* math.exp, in fixed point: Exp(x) = e^x * Scale, for the arguments the   *)
(* model uses.  math.exp raises OverflowError above ExpMax and returns 0.0 *)
(* far below zero.                                                         *)

Scale == 100 * 100
ExpMax == 709
ExpTable == [x \in -3..3 |->
               CASE x = -3 -> 498
                 [] x = -2 -> 1353
                 [] x = -1 -> 3679
                 [] x = 0  -> 10000
                 [] x = 1  -> 27183
                 [] x = 2  -> 73891
                 [] x = 3  -> 200855]
ExpOverflows(x) == x > ExpMax
Exp(x) == IF x < -700 THEN 0 ELSE ExpTable[x]

\* doc.metadata.get("relevance_score", 0.0)
GetScore(doc) == IF doc.has_score THEN doc.relevance_score ELSE 0

\* 1 / (1 + math.exp(-s)), in units of 1/Scale
Sigmoid(s) == (Scale * Scale) \div (Scale + Exp(-s))

RECURSIVE SumSigmoid(_)
SumSigmoid(ds) ==
    IF ds = <<>> THEN 0 ELSE Sigmoid(GetScore(Head(ds))) + SumSigmoid(Tail(ds))

\* round(x, 2) of the rational num/den (in units of 1/Scale): the nearest
\* multiple of Scale/100, ties to the even one
Round2(num, den) ==
    LET unit == (Scale \div 100) * den
        q    == num \div unit
        r    == num % unit
    IN  (Scale \div 100) *
        (IF 2 * r > unit THEN q + 1
         ELSE IF 2 * r < unit THEN q
         ELSE IF q % 2 = 0 THEN q ELSE q + 1)

\* the sum without the division by len(scores)
calculate_confidence_nodiv(ds) ==
    IF ds = <<>> THEN 0 ELSE Round2(SumSigmoid(ds), 1)

\* the average without round(.., 2)
calculate_confidence_noround(ds) ==
    IF ds = <<>> THEN 0 ELSE SumSigmoid(ds) \div Len(ds)

\* a scorer that takes an empty list for one passage with the default
\* score 0.0
calculate_confidence_default(ds) ==
    IF ds = <<>> THEN Sigmoid(0) ELSE Round2(SumSigmoid(ds), Len(ds))

\* RAGService._calculate_confidence: raises when math.exp overflows
calculate_confidence_raises(ds) ==
    \E i \in 1..Len(ds) : ExpOverflows(-GetScore(ds[i]))

calculate_confidence(ds) ==
    IF ds = <<>> THEN 0 ELSE Round2(SumSigmoid(ds), Len(ds))

-----------------------------------------------------------------------------
(* CrossEncoderReranker(top_n=5): score every passage, order by descending *)
(* score (a stable sort), keep the first top_n.                            *)

\* s with x put behind every element whose logit is at least x's
RECURSIVE InsertDesc(_, _)
InsertDesc(s, x) ==
    IF s = <<>> THEN <<x>>
    ELSE IF Head(s).logit >= x.logit THEN <<Head(s)>> \o InsertDesc(Tail(s), x)
    ELSE <<x>> \o s

RECURSIVE SortDesc(_)
SortDesc(s) ==
    IF s = <<>> THEN <<>>
    ELSE InsertDesc(SortDesc(SubSeq(s, 1, Len(s) - 1)), s[Len(s)])

\* the re-ranker without the top_n cut
compress_documents_nocut(ds, logits, annotate) ==
    LET scored == [i \in 1..Len(ds) |-> [doc |-> ds[i], logit |-> logits[i]]]
        ranked == SortDesc(scored)
    IN  [i \in 1..Len(ds) |->
           [id |-> ranked[i].doc.id, has_score |-> annotate,
            relevance_score |-> IF annotate THEN ranked[i].logit ELSE 0]]

\* the re-ranker keeping the first top_n passages as retrieved, unsorted
compress_documents_nosort(ds, logits, annotate) ==
    [i \in 1..Min(TopN, Len(ds)) |->
           [id |-> ds[i].id, has_score |-> annotate,
            relevance_score |-> IF annotate THEN logits[i] ELSE 0]]

\* logits[i] is the score of ds[i]; annotate: whether the re-ranker writes
\* the score into metadata["relevance_score"]
compress_documents(ds, logits, annotate) ==
    LET scored == [i \in 1..Len(ds) |-> [doc |-> ds[i], logit |-> logits[i]]]
        ranked == SortDesc(scored)
    IN  [i \in 1..Min(TopN, Len(ds)) |->
           [id |-> ranked[i].doc.id, has_score |-> annotate,
            relevance_score |-> IF annotate THEN ranked[i].logit ELSE 0]]

-----------------------------------------------------------------------------
(* The entries of "sources" *)

\* Path(p).name, itself a one-component path
Basename(path) == IF path = <<>> THEN <<>> ELSE <<path[Len(path)]>>

\* doc.page_content[:200] + "..."
Snippet(i) == [doc |-> i, chars |-> Min(DocLen(i), SnippetLen), ellipsis |-> TRUE]

\* generate_answer, lines 281-290
AskSource(doc) ==
    LET source_name == Basename(IF HasSource(doc.id) THEN DocSource(doc.id)
                                ELSE <<"unknown">>)
        page_num    == IF HasPage(doc.id) THEN DocPage(doc.id) ELSE 0
    IN  [source |-> source_name,
         page |-> page_num,
         citation |-> <<source_name, " (p. ", page_num, ")">>,
         snippet |-> Snippet(doc.id),
         relevance_score |-> GetScore(doc)]

AskSources(ds) == [i \in 1..Len(ds) |-> AskSource(ds[i])]

\* generate_answer_stream, lines 339-344
StreamSource(doc) ==
    [source |-> IF HasSource(doc.id) THEN DocSource(doc.id) ELSE <<"unknown">>,
     page |-> IF HasPage(doc.id) THEN DocPage(doc.id) ELSE 0,
     snippet |-> Snippet(doc.id)]

\* the sources event cut to the first passage
StreamSources_first(ds) == [i \in 1..Min(1, Len(ds)) |-> StreamSource(ds[i])]

StreamSources(ds) == [i \in 1..Len(ds) |-> StreamSource(ds[i])]

-----------------------------------------------------------------------------
(* validate_answer's reading of the Generator's response *)

Lower(c) == CASE c = "Y" -> "y" [] c = "E" -> "e" [] c = "S" -> "s"
              [] c = "N" -> "n" [] c = "O" -> "o" [] OTHER -> c

RECURSIVE Strip(_)
Strip(s) ==
    IF s = <<>> THEN s
    ELSE IF Head(s) = " " THEN Strip(Tail(s))
    ELSE IF s[Len(s)] = " " THEN Strip(SubSeq(s, 1, Len(s) - 1))
    ELSE s

\* "yes" in response.strip(), without lower()
SaysYes_sensitive(response) ==
    LET t == Strip(response)
    IN  \E i \in 1..(Len(t) - 2) : t[i] = "y" /\ t[i+1] = "e" /\ t[i+2] = "s"

\* "yes" in response.strip().lower()
SaysYes(response) ==
    LET t == [i \in 1..Len(Strip(response)) |-> Lower(Strip(response)[i])]
    IN  \E i \in 1..(Len(t) - 2) : t[i] = "y" /\ t[i+1] = "e" /\ t[i+2] = "s"

ValidationResponses ==
    { <<"Y", "E", "S">>, <<"N", "O">>, <<" ", "y", "e", "s", ".">>,
      <<"Y", "e">>, <<>>, <<"e", "Y", "e", "S">>, <<"y", "e", " ", "s">> }

-----------------------------------------------------------------------------
(* Initial state: the service is constructed, no request has arrived *)

NoChain == [strategy |-> "none", filter |-> FALSE]

\* the attributes __init__ and _setup_prompts assign, each a handle that is
\* only read afterwards; annotates: whether this cross-encoder re-ranker
\* writes the score into metadata["relevance_score"]
Handles(annotates) ==
    [embeddings |-> "all-MiniLM-L6-v2", vector_db |-> "rag_documents",
     llm |-> "ChatOllama", cross_encoder |-> "ms-marco-MiniLM-L-6-v2",
     annotates |-> annotates]

Tasks == 1..NumTasks

\* the local variables of a request that has not started
IdleTask ==
    [pc |-> "idle", mode |-> "none", req |-> NoReq, lc_history |-> <<>>,
     chain |-> NoChain, question |-> "", docs |-> <<>>, context |-> <<>>,
     answer |-> "", failed |-> FALSE, out |-> <<>>]

(* The audio files and the state of WhisperSTTService *)

\* the paths transcribe_audio is called with: a short recording, a second
\* path holding the same bytes, a recording of exactly ten minutes, a longer
\* one, and a path at which there is no file
AudioNames == {"short.wav", "copy.wav", "ten.wav", "long.wav", "missing.wav"}
Uploaded == AudioNames \ {"missing.wav"}

\* _compute_file_hash: the SHA-256 of the bytes, the same for equal contents
compute_file_hash(name) ==
    CASE name \in {"short.wav", "copy.wav"} -> "sha-short"
      [] name = "ten.wav" -> "sha-ten"
      [] OTHER -> "sha-long"

Hashes == {compute_file_hash(n) : n \in Uploaded}

\* sf.info(...).duration of a recording, in seconds
Duration(name) ==
    CASE name = "long.wav" -> 1200
      [] name = "ten.wav" -> 600
      [] OTHER -> 30

\* a path: the caller's file, or a temporary file made by call number `call`
AudioFile(name) == [kind |-> "audio", name |-> name, call |-> 0]
TempFile(kind, n) == [kind |-> kind, name |-> "tmp.wav", call |-> n]
NoPath == [kind |-> "none", name |-> "", call |-> 0]

NoOut == [kind |-> "none", text |-> "", duration |-> 0]

InitSTT ==
    /\ stt_pc = "idle"
    /\ audio_path = NoPath
    /\ processed_path = NoPath
    /\ chunk_i = 0
    /\ cache = [h \in Hashes |-> <<>>]
    /\ files = {AudioFile(n) : n \in Uploaded}
    /\ runs = [h \in Hashes |-> 0]
    /\ transcribed = {}
    /\ stt_out = NoOut
    /\ stt_calls = 0

InitRequest ==
    /\ mode = "none"
    /\ via = "service"
    /\ pc = "idle"
    /\ req = NoReq
    /\ lc_history = <<>>
    /\ chain = NoChain
    /\ question = ""
    /\ pending = 0
    /\ lists = <<>>
    /\ completed = <<>>
    /\ embedded = {}
    /\ docs = <<>>
    /\ context = <<>>
    /\ answer = ""
    /\ confidence = 0
    /\ result = <<>>
    /\ raised = <<>>
    /\ http = <<>>
    /\ events = <<>>
    /\ calls = <<>>
    /\ fault = <<>>
    /\ validation = <<>>

Init ==
    /\ InitRequest
    /\ tasks = [t \in Tasks |-> IdleTask]
    /\ service = Handles(FALSE)
    /\ InitSTT

-----------------------------------------------------------------------------
(* Entry *)

\* a conversion that keeps the entries of other roles as generic messages
RECURSIVE ConvertHistory_keep(_)
ConvertHistory_keep(h) ==
    IF h = <<>> THEN <<>>
    ELSE IF Head(h) = "user" THEN <<"HumanMessage">> \o ConvertHistory_keep(Tail(h))
    ELSE IF Head(h) = "assistant" THEN <<"AIMessage">> \o ConvertHistory_keep(Tail(h))
    ELSE <<"ChatMessage">> \o ConvertHistory_keep(Tail(h))

\* the loop over chat_history of both entry operations: "user" and
\* "assistant" turns are converted, every other role is skipped
RECURSIVE ConvertHistory(_)
ConvertHistory(h) ==
    IF h = <<>> THEN <<>>
    ELSE IF Head(h) = "user" THEN <<"HumanMessage">> \o ConvertHistory(Tail(h))
    ELSE IF Head(h) = "assistant" THEN <<"AIMessage">> \o ConvertHistory(Tail(h))
    ELSE ConvertHistory(Tail(h))

\* a chain builder that tests the query-expansion flag first
get_rag_chain_expansion_first(filters, enable_query_expansion, enable_hyde) ==
    [strategy |-> IF enable_query_expansion THEN "multi_query"
                  ELSE IF enable_hyde THEN "hyde"
                  ELSE "plain",
     filter |-> filters]

\* RAGService._get_rag_chain: HyDE wins over query expansion
get_rag_chain(filters, enable_query_expansion, enable_hyde) ==
    [strategy |-> IF enable_hyde THEN "hyde"
                  ELSE IF enable_query_expansion THEN "multi_query"
                  ELSE "plain",
     filter |-> filters]

\* generate_answer(query) with every other parameter left at its default
DefaultRequest(q) ==
    [query |-> q, chat_history |-> <<>>, filters |-> FALSE,
     enable_query_expansion |-> FALSE, enable_hyde |-> FALSE, use_rag |-> TRUE]

Requests ==
    [query : Queries, chat_history : Histories, filters : BOOLEAN,
     enable_query_expansion : BOOLEAN, enable_hyde : BOOLEAN, use_rag : BOOLEAN]
    \cup {DefaultRequest(q) : q \in BlankQueries}

\* what POST /ask of routes.py passes on: the query and the two strategy flags
RouteRequests ==
    {r \in Requests : r.chat_history = <<>> /\ ~r.filters /\ r.use_rag}

\* a generate_answer that builds the retrieval chain whatever use_rag says
FirstStage_always_rag(use_rag) == "reformulate"

\* generate_answer, lines 254-267: the stage a request starts with
FirstStage(use_rag) == IF ~use_rag THEN "direct" ELSE "reformulate"

\* generate_answer is called, directly or by ask_question
generate_answer ==
    /\ pc = "idle"
    /\ \E v \in {"service", "route"} :
       \E r \in (IF v = "route" THEN RouteRequests ELSE Requests) :
          /\ via' = v
          /\ req' = r
          /\ lc_history' = ConvertHistory(r.chat_history)
          /\ pc' = FirstStage(r.use_rag)
          /\ IF ~r.use_rag
             THEN chain' = chain
             ELSE chain' = get_rag_chain(r.filters, r.enable_query_expansion,
                                         r.enable_hyde)
    /\ mode' = "ask"
    /\ UNCHANGED <<question, pending,
                   lists, completed, embedded, docs, context, answer, confidence,
                   result, raised, http, events, calls, fault, validation>>
    /\ UNCHANGED <<tasks, service, stt_vars>>

\* ask_from_audio, line 86: the answer to a transcription that is blank
HttpRejected ==
    [status |-> 400, detail |-> "Could not transcribe audio or audio was empty"]

\* ask_from_audio, lines 78-91, from the transcription on: a blank text is
\* refused, any other is handed to generate_answer with the defaults
ask_from_audio ==
    /\ pc = "idle"
    /\ \E query_text \in Transcripts :
          /\ req' = DefaultRequest(query_text)
          /\ IF StripQuery(query_text) = ""
             THEN /\ pc' = "rejected"
                  /\ http' = <<HttpRejected>>
                  /\ UNCHANGED <<lc_history, chain>>
             ELSE /\ pc' = "reformulate"
                  /\ http' = http
                  /\ lc_history' = ConvertHistory(<<>>)
                  /\ chain' = get_rag_chain(FALSE, FALSE, FALSE)
    /\ mode' = "ask"
    /\ via' = "audio"
    /\ UNCHANGED <<question, pending, lists, completed, embedded, docs, context,
                   answer, confidence, result, raised, events, calls, fault,
                   validation>>
    /\ UNCHANGED <<tasks, service, stt_vars>>

\* generate_answer_stream is called and iterated
generate_answer_stream ==
    /\ pc = "idle"
    /\ \E r \in {q \in Requests : q.use_rag} :
          /\ req' = r
          /\ lc_history' = ConvertHistory(r.chat_history)
          /\ chain' = get_rag_chain(r.filters, r.enable_query_expansion,
                                    r.enable_hyde)
    /\ mode' = "stream"
    /\ pc' = "reformulate"
    /\ UNCHANGED <<via, question, pending,
                   lists, completed, embedded, docs, context, answer, confidence,
                   result, raised, http, events, calls, fault, validation>>
    /\ UNCHANGED <<tasks, service, stt_vars>>

-----------------------------------------------------------------------------
(* Failure of a stage *)

\* generate_answer, lines 306-313: the exception raised to the caller
RagError(e) ==
    [message |-> IF e.phrase THEN "Connection to Ollama failed"
                 ELSE "RAG generation failed",
     context |-> e]

\* ask_question, lines 59-60
HttpError(err) == [status |-> 500, detail |-> err.message]

\* ask_question, line 58, with response_model=AnswerResponse
HttpOk(d) ==
    [status |-> 200,
     body |-> [answer |-> d.answer, sources |-> d.sources,
               confidence |-> d.confidence, is_grounded |-> d.is_grounded]]

\* an except clause that logs the exception and neither re-raises it nor
\* ends the stream
Fail_swallow(e) ==
    IF mode = "ask"
    THEN /\ pc' = "failed"
         /\ raised' = raised
         /\ http' = http
         /\ events' = events
    ELSE /\ pc' = pc
         /\ events' = Append(events, [type |-> "error", data |-> e])
         /\ UNCHANGED <<raised, http>>

\* exception e reaches the except clause of the running entry operation
Fail(e) ==
    IF mode = "ask"
    THEN /\ pc' = "failed"
         /\ raised' = Append(raised, RagError(e))
         /\ http' = IF via # "service" THEN <<HttpError(RagError(e))>> ELSE http
         /\ events' = events
    ELSE /\ pc' = "closed"
         /\ events' = Append(events, [type |-> "error", data |-> e])
         /\ UNCHANGED <<raised, http>>

\* generate_answer returns dictionary d
Return(d) ==
    /\ pc' = "done"
    /\ result' = <<d>>
    /\ http' = IF via # "service" THEN <<HttpOk(d)>> ELSE http

\* a capability call of the pipeline raises e
Raise(e) ==
    /\ fault' = <<e>>
    /\ Fail(e)

-----------------------------------------------------------------------------
(* use_rag = False *)

\* the direct answer reported with full confidence
DirectResult_confident(a) ==
    [answer |-> a, sources |-> <<>>, confidence |-> Scale, is_grounded |-> FALSE,
     contexts |-> <<>>]

DirectResult(a) ==
    [answer |-> a, sources |-> <<>>, confidence |-> 0, is_grounded |-> FALSE,
     contexts |-> <<>>]

\* simple_chain.ainvoke, lines 255-264
GenerateDirect ==
    /\ pc = "direct"
    /\ calls' = Append(calls, "gen_direct")
    /\ \/ \E a \in Answers :
            /\ answer' = a
            /\ Return(DirectResult(a))
            /\ UNCHANGED <<fault, raised, events>>
       \/ \E e \in Excs :
            /\ Raise(e)
            /\ UNCHANGED <<answer, result>>
    /\ UNCHANGED <<validation, mode, via, req, lc_history, chain, question, pending,
                   lists, completed, embedded, docs,
                   context, confidence>>
    /\ UNCHANGED <<tasks, service, stt_vars>>

-----------------------------------------------------------------------------
(* The retrieval chain built by _get_rag_chain, shared by both operations *)

\* first step of the retriever chosen by _get_rag_chain
RetrieverEntry(strategy) ==
    IF strategy = "hyde" THEN "hyde"
    ELSE IF strategy = "multi_query" THEN "expand"
    ELSE "retrieve"

\* one search of the base retriever: the text it embeds, how far it is, and
\* the passages it found
NewSearch(text) == [text |-> text, state |-> "embed", found |-> <<>>]

\* the searches a retriever starts with when it is handed q: the plain
\* retriever searches q itself, the others first ask the Generator
FirstSearches(strategy, q) ==
    IF strategy = "plain" THEN <<NewSearch(q)>> ELSE <<>>

\* a history-aware retriever that has every input rewritten
NeedsReformulation_always(history) == TRUE

\* create_history_aware_retriever: the branch on `not x.get("chat_history")`
NeedsReformulation(history) == history # <<>>

\* a history-aware retriever that searches with the caller's query when the
\* rewriting fails
ReformulationFailed_fallback(e) ==
    /\ fault' = <<e>>
    /\ question' = req.query
    /\ pending' = 1
    /\ lists' = FirstSearches(chain.strategy, req.query)
    /\ pc' = RetrieverEntry(chain.strategy)
    /\ UNCHANGED <<raised, http, events>>

\* the rewriting chain raises e: nothing catches it before the except clause
\* of the entry operation
ReformulationFailed(e) ==
    /\ Raise(e)
    /\ UNCHANGED <<question, pending, lists>>

\* create_history_aware_retriever: with an empty chat_history the input goes
\* to the retriever as it is, otherwise the Generator rewrites it first
Reformulate ==
    /\ pc = "reformulate"
    /\ IF ~NeedsReformulation(lc_history)
       THEN /\ question' = req.query
            /\ pending' = 1
            /\ lists' = FirstSearches(chain.strategy, req.query)
            /\ pc' = RetrieverEntry(chain.strategy)
            /\ UNCHANGED <<calls, fault, raised, http, events>>
       ELSE /\ calls' = Append(calls, "gen_reformulate")
            /\ \/ /\ question' = "standalone question"
                  /\ pending' = 1
                  /\ lists' = FirstSearches(chain.strategy, "standalone question")
                  /\ pc' = RetrieverEntry(chain.strategy)
                  /\ UNCHANGED <<fault, raised, http, events>>
               \/ \E e \in Excs : ReformulationFailed(e)
    /\ UNCHANGED <<validation, mode, via, req, lc_history, chain, completed,
                   embedded, docs, context, answer, confidence, result>>
    /\ UNCHANGED <<tasks, service, stt_vars>>

\* the hypothetical paragraph handed to the base retriever in place of q
HydeInput_literal(q, paragraph) == q

\* hyde_chain: what the base retriever receives for question q when the
\* Generator wrote paragraph
HydeInput(q, paragraph) == paragraph

\* hyde_chain: hyde_prompt | llm | StrOutputParser() | base_retriever
HydeGenerate ==
    /\ pc = "hyde"
    /\ calls' = Append(calls, "gen_hyde")
    /\ \/ /\ lists' = <<NewSearch(HydeInput(question, "hypothetical paragraph"))>>
          /\ pc' = "retrieve"
          /\ UNCHANGED <<fault, raised, http, events>>
       \/ \E e \in Excs :
            /\ Raise(e)
            /\ UNCHANGED lists
    /\ UNCHANGED <<validation, mode, via, req, lc_history, chain, question,
                   pending, completed, embedded, docs, context, answer,
                   confidence, result>>
    /\ UNCHANGED <<tasks, service, stt_vars>>

ParaphraseText(i) ==
    CASE i = 1 -> "paraphrase 1" [] i = 2 -> "paraphrase 2"
      [] i = 3 -> "paraphrase 3" [] OTHER -> "paraphrase n"

\* MultiQueryRetriever: the Generator writes the paraphrases, and one search
\* is started for each of them
GenerateQueries ==
    /\ pc = "expand"
    /\ calls' = Append(calls, "gen_queries")
    /\ \/ \E n \in 1..MaxQueries :
            /\ pending' = n
            /\ lists' = [i \in 1..n |-> NewSearch(ParaphraseText(i))]
            /\ pc' = "retrieve"
            /\ UNCHANGED <<fault, raised, http, events>>
       \/ \E e \in Excs :
            /\ Raise(e)
            /\ UNCHANGED <<pending, lists>>
    /\ UNCHANGED <<validation, mode, via, req, lc_history, chain, question,
                   completed, embedded, docs, context, answer, confidence,
                   result>>
    /\ UNCHANGED <<tasks, service, stt_vars>>

\* the base retriever embeds the text of one of its searches
Embed ==
    /\ pc = "retrieve"
    /\ \E i \in 1..Len(lists) :
         /\ lists[i].state = "embed"
         /\ calls' = Append(calls, "embed")
         /\ embedded' = embedded \cup {lists[i].text}
         /\ \/ /\ lists' = [lists EXCEPT ![i].state = "search"]
               /\ UNCHANGED <<pc, fault, raised, http, events>>
            \/ \E e \in Excs :
                 /\ Raise(e)
                 /\ UNCHANGED lists
    /\ UNCHANGED <<validation, mode, via, req, lc_history, chain, question,
                   pending, completed, docs, context, answer, confidence,
                   result>>
    /\ UNCHANGED <<tasks, service, stt_vars>>

\* passages of new that are not in old yet, appended to old; two Documents
\* are the same when their content and their whole metadata are
RECURSIVE UniqueUnion(_, _)
UniqueUnion(old, new) ==
    IF new = <<>> THEN old
    ELSE IF \E i \in 1..Len(old) : old[i] = Head(new)
         THEN UniqueUnion(old, Tail(new))
         ELSE UniqueUnion(Append(old, Head(new)), Tail(new))

\* asyncio.gather: the results of the searches in the order of the queries,
\* whatever the order the searches returned in
gather(searches, order) ==
    [i \in 1..Len(searches) |-> searches[i].found]

\* MultiQueryRetriever.unique_union over the flattened results
RECURSIVE unique_union(_)
unique_union(document_lists) ==
    IF document_lists = <<>> THEN <<>>
    ELSE UniqueUnion(unique_union(SubSeq(document_lists, 1, Len(document_lists) - 1)),
                     document_lists[Len(document_lists)])

\* the index returns at most k passages, the most similar first; an empty
\* result is not an error.  The results tried: none, one passage, as many
\* as there can be, and two in another order than the corpus has them
SearchResults ==
    {[i \in 1..n |-> Passage(i)] : n \in {0, 1, Min(NumDocs, K)}}
    \cup {<<Passage(3), Passage(1)>>}

\* vector_db MMR search with search_kwargs k = 10, fetch_k = 20 and the
\* filter, for one of the searches; the retriever returns when all are back
Search ==
    /\ pc = "retrieve"
    /\ \E i \in 1..Len(lists) :
         /\ lists[i].state = "search"
         /\ calls' = Append(calls, "search")
         /\ \/ \E found \in SearchResults :
                 LET filled == [lists EXCEPT ![i].state = "done",
                                             ![i].found = found]
                     back   == \A j \in 1..Len(filled) : filled[j].state = "done"
                 IN  /\ pending' = pending - 1
                     /\ IF back /\ chain.strategy # "multi_query"
                        THEN /\ docs' = found
                             /\ lists' = <<>>
                             /\ completed' = <<>>
                             /\ pc' = "rerank"
                        ELSE /\ docs' = docs
                             /\ lists' = filled
                             /\ completed' = Append(completed, i)
                             /\ pc' = IF back THEN "merge" ELSE pc
                     /\ UNCHANGED <<fault, raised, http, events>>
            \/ \E e \in Excs :
                 /\ Raise(e)
                 /\ UNCHANGED <<docs, pending, lists, completed>>
    /\ UNCHANGED <<validation, mode, via, req, lc_history, chain, question,
                   embedded, context, answer, confidence, result>>
    /\ UNCHANGED <<tasks, service, stt_vars>>

\* MultiQueryRetriever: all searches are back, their results are merged
Merge ==
    /\ pc = "merge"
    /\ docs' = unique_union(gather(lists, completed))
    /\ lists' = <<>>
    /\ completed' = <<>>
    /\ pc' = "rerank"
    /\ UNCHANGED <<validation, mode, via, req, lc_history, chain, question,
                   pending, embedded, context, answer, confidence, result,
                   raised, http, events, calls, fault>>
    /\ UNCHANGED <<tasks, service, stt_vars>>

\* a generate_answer that computes the confidence before awaiting the chain's
\* answer
StageAfter_score_first(stage) ==
    CASE stage = "rerank" -> "score"
      [] stage = "score" -> "generate"
      [] OTHER -> "validate"

\* generate_answer, lines 266-296: what follows a stage that succeeded, from
\* the re-ranking on: the chain generates the answer (create_retrieval_chain),
\* then the confidence is computed, then the answer is validated
StageAfter(stage) ==
    CASE stage = "rerank" -> "generate"
      [] stage = "generate" -> "score"
      [] OTHER -> "validate"

\* ContextualCompressionRetriever with CrossEncoderReranker(top_n=5): nothing
\* is scored when no passage was retrieved
Rerank ==
    /\ pc = "rerank"
    /\ IF docs = <<>>
       THEN /\ context' = <<>>
            /\ pc' = IF mode = "ask" THEN StageAfter("rerank") ELSE "sources"
            /\ UNCHANGED <<calls, fault, raised, http, events>>
       ELSE /\ calls' = Append(calls, "rerank")
            /\ \/ \E logits \in Scorings(Len(docs)), annotate \in BOOLEAN :
                    /\ context' = compress_documents(docs, logits, annotate)
                    /\ pc' = IF mode = "ask" THEN StageAfter("rerank") ELSE "sources"
                    /\ UNCHANGED <<fault, raised, http, events>>
               \/ \E e \in Excs :
                    /\ Raise(e)
                    /\ UNCHANGED context
    /\ UNCHANGED <<validation, mode, via, req, lc_history, chain, question, pending,
                   lists, completed, embedded, docs,
                   answer, confidence, result>>
    /\ UNCHANGED <<tasks, service, stt_vars>>

-----------------------------------------------------------------------------
(* generate_answer after the retrieval *)

\* question_answer_chain: runs on the re-ranked passages, empty or not
GenerateAnswer ==
    /\ mode = "ask"
    /\ pc = "generate"
    /\ calls' = Append(calls, "gen_answer")
    /\ \/ \E a \in Answers :
            /\ answer' = a
            /\ pc' = StageAfter("generate")
            /\ UNCHANGED <<fault, raised, http, events>>
       \/ \E e \in Excs :
            /\ Raise(e)
            /\ UNCHANGED answer
    /\ UNCHANGED <<validation, mode, via, req, lc_history, chain, question, pending,
                   lists, completed, embedded, docs,
                   context, confidence, result>>
    /\ UNCHANGED <<tasks, service, stt_vars>>

\* the OverflowError of math.exp
OverflowError == [kind |-> "other", phrase |-> FALSE]

\* lines 278-293: the sources are built and the confidence is computed
Score ==
    /\ pc = "score"
    /\ IF calculate_confidence_raises(context)
       THEN /\ Raise(OverflowError)
            /\ UNCHANGED confidence
       ELSE /\ confidence' = calculate_confidence(context)
            /\ pc' = StageAfter("score")
            /\ UNCHANGED <<fault, raised, http, events>>
    /\ UNCHANGED <<validation, mode, via, req, lc_history, chain, question, pending,
                   lists, completed, embedded, docs,
                   context, answer, result, calls>>
    /\ UNCHANGED <<tasks, service, stt_vars>>

\* what the Generator does with the validation prompt
ValidationOutcomes ==
    {[ok |-> TRUE, response |-> r] : r \in ValidationResponses}
    \cup {[ok |-> FALSE, response |-> <<>>]}

\* validate_answer that trusts the answer when the Generator fails
validate_answer_trusting(ctx, outcome) ==
    IF ctx = <<>> THEN FALSE
    ELSE IF outcome.ok THEN SaysYes(outcome.response)
    ELSE TRUE

\* validate_answer without the test for an empty context
validate_answer_noshort(ctx, outcome) ==
    IF outcome.ok THEN SaysYes(outcome.response) ELSE FALSE

\* RAGService.validate_answer: the value returned
validate_answer(ctx, outcome) ==
    IF ctx = <<>> THEN FALSE
    ELSE IF outcome.ok THEN SaysYes(outcome.response)
    ELSE FALSE

\* a validate_answer that asks the Generator whatever the context
validate_answer_calls_always(ctx) == TRUE

\* RAGService.validate_answer: whether the Generator is called
validate_answer_calls(ctx) == ctx # <<>>

\* the dictionary of lines 298-304
AskResult(a, ctx, conf, grounded) ==
    [answer |-> a, sources |-> AskSources(ctx), confidence |-> conf,
     is_grounded |-> grounded,
     contexts |-> [i \in 1..Len(ctx) |-> ctx[i].id]]

\* lines 295-304: the answer is validated and the dictionary returned
Validate ==
    /\ pc = "validate"
    /\ calls' = IF validate_answer_calls(context)
                THEN Append(calls, "gen_validate") ELSE calls
    /\ \E outcome \in ValidationOutcomes :
         /\ validation' = IF validate_answer_calls(context)
                          THEN <<outcome>> ELSE <<>>
         /\ Return(AskResult(answer, context, confidence,
                             validate_answer(context, outcome)))
    /\ UNCHANGED <<mode, via, req, lc_history, chain, question, pending,
                   lists, completed, embedded, docs,
                   context, answer, confidence, raised, events, fault>>
    /\ UNCHANGED <<tasks, service, stt_vars>>

-----------------------------------------------------------------------------
(* generate_answer_stream after the retrieval *)

\* a chunk of rag_chain.astream: it carries the key "context", the key
\* "answer", or neither
ContextChunk(ctx) ==
    [has_context |-> TRUE, context |-> ctx, has_answer |-> FALSE, answer |-> ""]
AnswerChunk(t) ==
    [has_context |-> FALSE, context |-> <<>>, has_answer |-> TRUE, answer |-> t]

\* the loop body without the test for the "context" key
Yielded_always_sources(chunk) ==
    <<[type |-> "sources", data |-> StreamSources(chunk.context)]>>
    \o (IF chunk.has_answer
        THEN <<[type |-> "token", data |-> chunk.answer]>> ELSE <<>>)

\* lines 337-348: the events yielded for one chunk
Yielded(chunk) ==
    (IF chunk.has_context
     THEN <<[type |-> "sources", data |-> StreamSources(chunk.context)]>>
     ELSE <<>>)
    \o (IF chunk.has_answer
        THEN <<[type |-> "token", data |-> chunk.answer]>> ELSE <<>>)

\* the chain hands over the re-ranked passages before it generates
EmitSources ==
    /\ mode = "stream"
    /\ pc = "sources"
    /\ events' = events \o Yielded(ContextChunk(context))
    /\ pc' = "generate"
    /\ UNCHANGED <<validation, mode, via, req, lc_history, chain, question, pending,
                   lists, completed, embedded, docs,
                   context, answer, confidence, result, raised, http, calls,
                   fault>>
    /\ UNCHANGED <<tasks, service, stt_vars>>

\* the answer chain starts streaming from the Generator
BeginAnswerStream ==
    /\ mode = "stream"
    /\ pc = "generate"
    /\ calls' = Append(calls, "gen_answer")
    /\ \/ /\ pc' = "streaming"
          /\ UNCHANGED <<fault, raised, http, events>>
       \/ \E e \in Excs : Raise(e)
    /\ UNCHANGED <<validation, mode, via, req, lc_history, chain, question, pending,
                   lists, completed, embedded, docs,
                   context, answer, confidence, result>>
    /\ UNCHANGED <<tasks, service, stt_vars>>

TokenCount == Cardinality({i \in 1..Len(events) : events[i].type = "token"})

\* the Generator yields one more fragment
StreamToken ==
    /\ pc = "streaming"
    /\ TokenCount < MaxTokens
    /\ \E t \in Fragments :
         events' = events \o Yielded(AnswerChunk(t))
    /\ UNCHANGED <<validation, mode, via, pc, req, lc_history, chain, question, pending,
                   lists, completed, embedded, docs, context, answer, confidence, result, raised, http,
                   calls, fault>>
    /\ UNCHANGED <<tasks, service, stt_vars>>

\* the Generator fails in the middle of its stream
StreamFail ==
    /\ pc = "streaming"
    /\ \E e \in Excs : Raise(e)
    /\ UNCHANGED <<validation, mode, via, req, lc_history, chain, question, pending,
                   lists, completed, embedded, docs,
                   context, answer, confidence, result, calls>>
    /\ UNCHANGED <<tasks, service, stt_vars>>

\* a stream that ends with the scores of the answer
StreamTail_scored(ctx) ==
    <<[type |-> "done",
       data |-> [confidence |-> IF calculate_confidence_raises(ctx) THEN 0
                                ELSE calculate_confidence(ctx),
                 is_grounded |-> FALSE]]>>

\* generate_answer_stream, lines 333-348: what is yielded once the chain's
\* stream is exhausted: nothing, the loop just ends
StreamTail(ctx) == <<>>

\* the Generator's stream is exhausted: the async generator returns
StreamEnd ==
    /\ pc = "streaming"
    /\ pc' = "closed"
    /\ events' = events \o StreamTail(context)
    /\ UNCHANGED <<validation, mode, via, req, lc_history, chain, question, pending,
                   lists, completed, embedded, docs,
                   context, answer, confidence, result, raised, http,
                   calls, fault>>
    /\ UNCHANGED <<tasks, service, stt_vars>>

-----------------------------------------------------------------------------

(* The consumer closes the stream *)

\* the places of generate_answer_stream at which the consumer is taken to
\* go away: during the HyDE retrieval, after the sources event, between tokens
CancelPoints == {"hyde", "generate", "streaming"}

\* RunnableRetriever defines _get_relevant_documents only, so the retriever's
\* asynchronous entry runs hyde_chain.invoke on a worker thread
InWorkerThread(stage) == stage = "hyde"

\* generate_answer_stream is closed or its task cancelled while suspended:
\* GeneratorExit / CancelledError are not Exceptions, the except clause of
\* line 350 does not run and there is no finally clause; work handed to a
\* worker thread is not interrupted
Cancel ==
    /\ mode = "stream" /\ pc \in CancelPoints
    /\ pc' = (IF InWorkerThread(pc) THEN "abandoned" ELSE "cancelled")
    /\ UNCHANGED <<validation, mode, via, req, lc_history, chain, question,
                   pending, lists, completed, embedded, docs, context, answer,
                   confidence, result, raised, http, events, calls, fault>>
    /\ UNCHANGED <<tasks, service, stt_vars>>

\* the worker thread left behind by a cancelled HyDE retrieval runs
\* hyde_chain.invoke to its end: the Generator writes the hypothetical
\* paragraph and, unless that call failed, the paragraph is embedded and
\* searched for; whatever comes out is dropped
AbandonedHyde ==
    /\ pc = "abandoned"
    /\ calls' = Append(calls, "gen_hyde")
    /\ \/ embedded' = embedded \cup {HydeInput(question, "hypothetical paragraph")}
       \/ embedded' = embedded
    /\ pc' = "cancelled"
    /\ UNCHANGED <<validation, mode, via, req, lc_history, chain, question,
                   pending, lists, completed, docs, context, answer,
                   confidence, result, raised, http, events, fault>>
    /\ UNCHANGED <<tasks, service, stt_vars>>

Next ==
    \/ generate_answer
    \/ ask_from_audio
    \/ generate_answer_stream
    \/ GenerateDirect
    \/ Reformulate
    \/ HydeGenerate
    \/ GenerateQueries
    \/ Embed
    \/ Search
    \/ Merge
    \/ Rerank
    \/ GenerateAnswer
    \/ Score
    \/ Validate
    \/ EmitSources
    \/ BeginAnswerStream
    \/ StreamToken
    \/ StreamFail
    \/ StreamEnd
    \/ Cancel
    \/ AbandonedHyde

Spec == Init /\ [][Next]_vars

-----------------------------------------------------------------------------
(* Several requests at once on one RAGService.  Each request is a        *)
(* coroutine of generate_answer or generate_answer_stream with its own   *)
(* local variables; the capabilities are the service's handles, and here *)
(* each is a function of what it is given, so that what a request        *)
(* returns alone is a function of the request.                           *)

\* the requests made at the same time through operation m: with or without
\* history, with or without filter; the streamed ones expand the query
ConcRequests(m) ==
    {r \in Requests : /\ r.use_rag /\ r.query \in Queries /\ ~r.enable_hyde
                      /\ r.chat_history \in {<<>>, <<"user", "assistant">>}
                      /\ r.enable_query_expansion = (m = "stream")}

\* contextualize_q_prompt | llm | StrOutputParser()
Rewrite(q, history) == "standalone question"

\* the index: how many passages it has near a text, and the MMR search with
\* the chain's filter, which keeps the chunks of a.pdf
Hits(text) ==
    CASE text = "standalone question" -> 2
      [] text = "paraphrase 2" -> 4
      [] OTHER -> 3

IndexSearch(filter, text) ==
    LET Keep(d) == ~filter \/ (HasSource(d.id) /\ DocSource(d.id) = <<"a.pdf">>)
    IN  SelectSeq([i \in 1..Min(Hits(text), NumDocs) |-> Passage(i)], Keep)

\* the retriever of the chain, from the query it is handed to the passages
\* it returns
Retrieve(c, q) ==
    IF c.strategy = "multi_query"
    THEN unique_union([i \in 1..MaxQueries |-> IndexSearch(c.filter, ParaphraseText(i))])
    ELSE IndexSearch(c.filter, q)

\* cross_encoder.score and the re-ranker over it
CrossEncoderLogit(i) == IF i % 2 = 0 THEN 800 ELSE -1

Reranked(ds, annotates) ==
    IF ds = <<>> THEN <<>>
    ELSE compress_documents(ds, [i \in 1..Len(ds) |-> CrossEncoderLogit(ds[i].id)],
                            annotates)

\* question_answer_chain and validation_chain
AnswerFor(ctx) ==
    IF ctx = <<>> THEN "not enough information" ELSE "the limit is five"

ValidationFor(a, ctx) ==
    [ok |-> TRUE, response |-> IF Len(ctx) > 1 THEN <<"Y", "E", "S">> ELSE <<"N", "O">>]

GenerationError == [kind |-> "other", phrase |-> FALSE]

\* a service that keeps the chain built last in an attribute and awaits that
RequestChain_last(own, others) ==
    IF others = {} THEN own ELSE CHOOSE c \in others : TRUE

\* generate_answer, lines 267-273: the chain awaited is the local rag_chain
RequestChain(own, others) == own

\* the chains other requests have built and not yet finished with
OtherChains(t) ==
    {tasks[u].chain : u \in {v \in Tasks \ {t} : tasks[v].pc # "idle"}}

\* what request r returns when it runs alone: the dictionary or the error of
\* generate_answer, the events of generate_answer_stream
Alone(m, r, annotates, fails) ==
    LET h   == ConvertHistory(r.chat_history)
        c   == get_rag_chain(r.filters, r.enable_query_expansion, r.enable_hyde)
        q   == IF NeedsReformulation(h) THEN Rewrite(r.query, h) ELSE r.query
        ctx == Reranked(Retrieve(c, q), annotates)
        a   == AnswerFor(ctx)
    IN  IF m = "ask"
        THEN IF fails THEN <<RagError(GenerationError)>>
             ELSE <<AskResult(a, ctx, calculate_confidence(ctx),
                              validate_answer(ctx, ValidationFor(a, ctx)))>>
        ELSE Yielded(ContextChunk(ctx))
             \o (IF fails THEN <<[type |-> "error", data |-> GenerationError]>>
                 ELSE Yielded(AnswerChunk(a)))

\* a request arrives: history converted, chain built
TaskStart(t) ==
    /\ tasks[t].pc = "idle"
    /\ \E m \in {"ask", "stream"} : \E r \in ConcRequests(m) :
         tasks' = [tasks EXCEPT ![t] =
                     [IdleTask EXCEPT !.pc = "retrieve", !.mode = m, !.req = r,
                        !.lc_history = ConvertHistory(r.chat_history),
                        !.chain = get_rag_chain(r.filters, r.enable_query_expansion,
                                                r.enable_hyde)]]
    /\ UNCHANGED <<request_vars, service, stt_vars>>

\* the history-aware retriever of the request's chain
TaskRetrieve(t) ==
    /\ tasks[t].pc = "retrieve"
    /\ LET q == IF NeedsReformulation(tasks[t].lc_history)
                THEN Rewrite(tasks[t].req.query, tasks[t].lc_history)
                ELSE tasks[t].req.query
           c == RequestChain(tasks[t].chain, OtherChains(t))
       IN  tasks' = [tasks EXCEPT ![t].question = q, ![t].docs = Retrieve(c, q),
                                  ![t].pc = "rerank"]
    /\ UNCHANGED <<request_vars, service, stt_vars>>

\* the re-ranker; a streamed request yields its sources right after
TaskRerank(t) ==
    /\ tasks[t].pc = "rerank"
    /\ LET ctx == Reranked(tasks[t].docs, service.annotates)
       IN  tasks' = [tasks EXCEPT
                       ![t].context = ctx,
                       ![t].out = IF tasks[t].mode = "stream"
                                  THEN Yielded(ContextChunk(ctx)) ELSE <<>>,
                       ![t].pc = "generate"]
    /\ UNCHANGED <<request_vars, service, stt_vars>>

\* the answer chain, which may fail
TaskGenerate(t) ==
    /\ tasks[t].pc = "generate"
    /\ \/ LET a == AnswerFor(tasks[t].context)
          IN  tasks' = [tasks EXCEPT
                          ![t].answer = a,
                          ![t].out = IF tasks[t].mode = "stream"
                                     THEN tasks[t].out \o Yielded(AnswerChunk(a))
                                     ELSE <<>>,
                          ![t].pc = IF tasks[t].mode = "stream" THEN "closed"
                                    ELSE "score"]
       \/ tasks' = [tasks EXCEPT
                      ![t].failed = TRUE,
                      ![t].out = IF tasks[t].mode = "stream"
                                 THEN Append(tasks[t].out,
                                             [type |-> "error", data |-> GenerationError])
                                 ELSE <<RagError(GenerationError)>>,
                      ![t].pc = IF tasks[t].mode = "stream" THEN "closed"
                                ELSE "failed"]
    /\ UNCHANGED <<request_vars, service, stt_vars>>

\* generate_answer, lines 278-304: sources, confidence, validation, return
TaskFinish(t) ==
    /\ tasks[t].pc = "score"
    /\ LET ctx == tasks[t].context
           a   == tasks[t].answer
       IN  tasks' = [tasks EXCEPT
                       ![t].out = <<AskResult(a, ctx, calculate_confidence(ctx),
                                     validate_answer(ctx, ValidationFor(a, ctx)))>>,
                       ![t].pc = "done"]
    /\ UNCHANGED <<request_vars, service, stt_vars>>

InitConc ==
    /\ InitRequest
    /\ tasks = [t \in Tasks |-> IdleTask]
    /\ service \in {Handles(b) : b \in BOOLEAN}
    /\ InitSTT

NextConc ==
    \/ \E t \in Tasks : TaskStart(t)
    \/ \E t \in Tasks : TaskRetrieve(t)
    \/ \E t \in Tasks : TaskRerank(t)
    \/ \E t \in Tasks : TaskGenerate(t)
    \/ \E t \in Tasks : TaskFinish(t)

SpecConc == InitConc /\ [][NextConc]_vars

-----------------------------------------------------------------------------
(* WhisperSTTService.transcribe_audio: a sequence of calls on one service.  *)
(* The temporary files are told apart by their role and the number of the   *)
(* call that made them.                                                     *)

\* the ways preprocess_audio can go: to its end, or with an exception from the
\* creation of the first temporary file, from ffmpeg, from the reading and
\* noise reduction, or from the writing of the processed file
PreprocessOutcomes == {"ok", "tempfile", "ffmpeg", "denoise", "write"}

\* preprocess_audio, lines 62-93: the temporary files call n has created and
\* not removed by the time it returns; only the successful path removes
\* temp_wav_path (line 87), and the except clause removes nothing
LeftBehind(outcome, n) ==
    CASE outcome = "ok" -> {TempFile("processed", n)}
      [] outcome = "tempfile" -> {}
      [] outcome \in {"ffmpeg", "denoise"} -> {TempFile("temp_wav", n)}
      [] OTHER -> {TempFile("temp_wav", n), TempFile("processed", n)}

\* preprocess_audio: the path it returns, the caller's own one after a failure
preprocess_audio(path, outcome, n) ==
    IF outcome = "ok" THEN TempFile("processed", n) ELSE path

\* the finally clause of transcribe_audio, lines 233-236
Cleanup(fs, processed, audio) ==
    IF processed # audio THEN fs \ {processed} ELSE fs

\* _transcribe_chunked, line 126: ten-minute chunks
NumChunks(duration) == (duration + 599) \div 600

\* transcribe_audio, line 205
IsLong(duration) == duration > 600

SpokenText(name) ==
    CASE compute_file_hash(name) = "sha-short" -> "what is the policy"
      [] compute_file_hash(name) = "sha-ten" -> "ten minutes of talk"
      [] OTHER -> "twenty minutes of talk"

\* the dictionary a transcription returns
Transcription(name) ==
    [kind |-> "return", text |-> SpokenText(name), duration |-> Duration(name)]

\* line 231 and line 188
TranscriptionFailed == [kind |-> "raise", text |-> "Transcription failed", duration |-> 0]
AudioNotFound == [kind |-> "raise", text |-> "Audio file not found", duration |-> 0]

\* the call ends with `out`, leaving the files fs to the finally clause
Finish(out, fs) ==
    /\ stt_out' = out
    /\ stt_pc' = "idle"
    /\ files' = Cleanup(fs, processed_path, audio_path)
    /\ audio_path' = NoPath
    /\ processed_path' = NoPath

\* transcribe_audio, lines 186-199: the existence check and the cache lookup
transcribe_audio ==
    /\ stt_pc = "idle" /\ stt_calls < MaxCalls
    /\ stt_calls' = stt_calls + 1
    /\ \E name \in AudioNames :
         IF AudioFile(name) \notin files
         THEN /\ stt_out' = AudioNotFound
              /\ UNCHANGED <<stt_pc, audio_path>>
         ELSE IF cache[compute_file_hash(name)] # <<>>
         THEN /\ stt_out' = cache[compute_file_hash(name)][1]
              /\ UNCHANGED <<stt_pc, audio_path>>
         ELSE /\ stt_out' = NoOut
              /\ stt_pc' = "preprocess"
              /\ audio_path' = AudioFile(name)
    /\ UNCHANGED <<processed_path, chunk_i, cache, files, runs, transcribed>>
    /\ UNCHANGED <<request_vars, tasks, service>>

\* transcribe_audio, line 199: processed_path = self.preprocess_audio(...)
Preprocess ==
    /\ stt_pc = "preprocess"
    /\ \E o \in PreprocessOutcomes :
         /\ files' = files \cup LeftBehind(o, stt_calls)
         /\ processed_path' = preprocess_audio(audio_path, o, stt_calls)
    /\ stt_pc' = "transcribe"
    /\ UNCHANGED <<audio_path, chunk_i, cache, runs, transcribed, stt_out,
                   stt_calls>>
    /\ UNCHANGED <<request_vars, tasks, service>>

\* transcribe_audio, lines 202-236: sf.info, then the chunked branch for a
\* long recording or one run of the speech model for a short one; the
\* short branch returns its dictionary without touching self.cache
Transcribe ==
    /\ stt_pc = "transcribe"
    /\ \/ /\ Finish(TranscriptionFailed, files)
          /\ UNCHANGED <<runs, transcribed, chunk_i>>
       \/ /\ IsLong(Duration(audio_path.name))
          /\ stt_pc' = "chunk"
          /\ chunk_i' = 0
          /\ UNCHANGED <<audio_path, processed_path, files, runs, transcribed,
                         stt_out>>
       \/ /\ ~IsLong(Duration(audio_path.name))
          /\ runs' = [runs EXCEPT ![compute_file_hash(audio_path.name)] = @ + 1]
          /\ \/ /\ Finish(Transcription(audio_path.name), files)
                /\ transcribed' = transcribed
                                     \cup {compute_file_hash(audio_path.name)}
             \/ /\ Finish(TranscriptionFailed, files)
                /\ UNCHANGED transcribed
          /\ UNCHANGED chunk_i
    /\ UNCHANGED <<cache, stt_calls>>
    /\ UNCHANGED <<request_vars, tasks, service>>

\* _transcribe_chunked, lines 135-136: the temporary file of chunk i
OpenChunk ==
    /\ stt_pc = "chunk"
    /\ files' = files \cup {TempFile("chunk", stt_calls)}
    /\ stt_pc' = "chunk_run"
    /\ UNCHANGED <<audio_path, processed_path, chunk_i, cache, runs,
                   transcribed, stt_out, stt_calls>>
    /\ UNCHANGED <<request_vars, tasks, service>>

\* _transcribe_chunked, lines 138-164, and lines 207-209 after the last
\* chunk: the chunk is written and transcribed and its file removed by the
\* finally clause; the result of the whole recording is put in the cache
RunChunk ==
    /\ stt_pc = "chunk_run"
    /\ LET h    == compute_file_hash(audio_path.name)
           left == files \ {TempFile("chunk", stt_calls)}
       IN  /\ runs' = [runs EXCEPT ![h] = IF chunk_i = 0 THEN @ + 1 ELSE @]
           /\ \/ /\ Finish(TranscriptionFailed, left)
                 /\ UNCHANGED <<chunk_i, cache, transcribed>>
              \/ /\ chunk_i + 1 < NumChunks(Duration(audio_path.name))
                 /\ chunk_i' = chunk_i + 1
                 /\ stt_pc' = "chunk"
                 /\ files' = left
                 /\ UNCHANGED <<audio_path, processed_path, cache, transcribed,
                                stt_out>>
              \/ /\ chunk_i + 1 = NumChunks(Duration(audio_path.name))
                 /\ chunk_i' = 0
                 /\ cache' = [cache EXCEPT ![h] = <<Transcription(audio_path.name)>>]
                 /\ transcribed' = transcribed \cup {h}
                 /\ Finish(Transcription(audio_path.name), left)
    /\ UNCHANGED stt_calls
    /\ UNCHANGED <<request_vars, tasks, service>>

NextSTT ==
    \/ transcribe_audio
    \/ Preprocess
    \/ Transcribe
    \/ OpenChunk
    \/ RunChunk

SpecSTT == Init /\ [][NextSTT]_vars

-----------------------------------------------------------------------------
(* Properties *)

Last(s) == s[Len(s)]
CountEvents(types) == Cardinality({i \in 1..Len(events) : events[i].type \in types})
CountCalls(name) == Cardinality({i \in 1..Len(calls) : calls[i] = name})
NonIncreasing(scores) ==
    \A i, j \in 1..Len(scores) : i < j => scores[i] >= scores[j]

\* C1: a generate_answer call with use_rag = False that returns, returns no
\* sources, confidence 0.0 and is_grounded False, whatever the answer text,
\* the history, the filter and the strategy flags.
C1_DirectShape ==
    (mode = "ask" /\ ~req.use_rag /\ pc = "done") =>
        /\ Len(result) = 1
        /\ result[1].sources = <<>>
        /\ result[1].confidence = 0
        /\ result[1].is_grounded = FALSE
        /\ result[1].answer = answer

C1_Witness ==
    /\ mode = "ask" /\ ~req.use_rag /\ pc = "done"
    /\ req.chat_history # <<>> /\ req.filters /\ req.enable_hyde
    /\ result[1].answer = "the limit is five"

\* C2: every confidence computed by _calculate_confidence and returned by
\* generate_answer lies between 0.0 and 1.0 and is a multiple of 0.01, for
\* every list of re-ranked passages, with or without relevance scores.
C2_ConfidenceRange ==
    /\ pc \in {"validate", "done"} =>
          /\ 0 <= confidence /\ confidence <= Scale
          /\ confidence % (Scale \div 100) = 0
    /\ (mode = "ask" /\ pc = "done") =>
          /\ 0 <= result[1].confidence /\ result[1].confidence <= Scale
          /\ result[1].confidence % (Scale \div 100) = 0
          /\ req.use_rag => result[1].confidence = confidence

\* a returned confidence that the rounding changed
C2_Witness ==
    /\ mode = "ask" /\ pc = "done" /\ req.use_rag
    /\ Len(context) > 1
    /\ context[1].has_score
    /\ SumSigmoid(context) % ((Scale \div 100) * Len(context)) # 0
    /\ result[1].confidence > 0

\* scores missing from the metadata count as 0.0 each
C2_WitnessMissing ==
    /\ mode = "ask" /\ pc = "done" /\ req.use_rag
    /\ context # <<>> /\ ~context[1].has_score
    /\ result[1].confidence = Scale \div 2

\* a confidence of exactly 1.0
C2_WitnessOne ==
    /\ mode = "ask" /\ pc = "done" /\ req.use_rag
    /\ context # <<>> /\ context[1].has_score
    /\ result[1].confidence = Scale

SourcesBeforeTokens ==
    \A j \in 1..Len(events) :
        events[j].type = "token" =>
            \E i \in 1..(j - 1) : events[i].type = "sources"

\* C3 as stated: every finished stream holds exactly one sources event, it
\* precedes every token event, and there is at most one terminal event.
C3_ExactlyOneSources ==
    (mode = "stream" /\ pc = "closed") =>
        /\ CountEvents({"sources"}) = 1
        /\ SourcesBeforeTokens
        /\ CountEvents({"done", "error"}) <= 1

\* C3, amended: a stream holds at most one sources event, and exactly one
\* once the retrieval and the re-ranking have succeeded; the sources event
\* precedes every token event; there is at most one terminal event.
C3_SourcesOnceBeforeTokens ==
    mode = "stream" =>
        /\ CountEvents({"sources"}) <= 1
        /\ SourcesBeforeTokens
        /\ CountEvents({"done", "error"}) <= 1
        /\ pc \in {"generate", "streaming"} => CountEvents({"sources"}) = 1
        /\ (pc = "closed" /\ CountCalls("gen_answer") > 0) =>
               CountEvents({"sources"}) = 1
        /\ (pc = "closed" /\ CountCalls("gen_answer") = 0) =>
               CountEvents({"sources"}) = 0

C3_Witness ==
    /\ mode = "stream" /\ pc = "closed"
    /\ CountEvents({"sources"}) = 1
    /\ CountEvents({"token"}) = MaxTokens
    /\ events[1].type = "sources"

\* C4: when a stage of generate_answer_stream fails, wherever it fails, the
\* stream holds exactly one error event, the error event is its last event,
\* and nothing runs afterwards: no further call and no further event.
C4_StreamFailure ==
    /\ [](mode = "stream" =>
            /\ CountEvents({"error"}) <= 1
            /\ fault # <<>> =>
                 /\ pc = "closed"
                 /\ CountEvents({"error"}) = 1
                 /\ Last(events) = [type |-> "error", data |-> fault[1]]
            /\ CountEvents({"error"}) = 1 => fault # <<>>)
    /\ [][(mode = "stream" /\ fault # <<>>) => UNCHANGED vars]_vars

\* a failure after some tokens, and one before the sources event
C4_Witness ==
    /\ mode = "stream" /\ fault # <<>> /\ pc = "closed"
    /\ CountEvents({"token"}) > 0
    /\ Last(events).type = "error"

C4_WitnessEarly ==
    /\ mode = "stream" /\ fault # <<>> /\ pc = "closed"
    /\ events = <<[type |-> "error", data |-> fault[1]]>>
    /\ Last(calls) = "embed"

StreamShape(tail) ==
    /\ Len(events) >= 1 + Len(tail)
    /\ events[1].type = "sources"
    /\ Len(events[1].data) = Len(context)
    /\ \A i \in 1..Len(context) :
           events[1].data[i].snippet.doc = context[i].id
    /\ \A i \in 2..(Len(events) - Len(tail)) : events[i].type = "token"
    /\ \A i \in 1..Len(tail) :
           events[Len(events) - Len(tail) + i].type = tail[i]

PipelineCalls ==
    {"gen_direct", "gen_reformulate", "gen_hyde", "gen_queries", "embed",
     "search", "rerank", "gen_answer"}

\* C6: in generate_answer, the failure of any stage but the answer validation
\* ends the request as failed: exactly one error reaches the caller (one
\* HTTP 500 through POST /ask), no dictionary is returned, and no stage runs
\* after the failing one.
C6_AskFailure ==
    /\ [](mode = "ask" =>
            /\ fault # <<>> =>
                 /\ pc = "failed"
                 /\ Len(raised) = 1
                 /\ raised[1].context = fault[1]
                 /\ result = <<>>
                 /\ Last(calls) \in PipelineCalls
                 /\ CountCalls("gen_validate") = 0
                 /\ via = "route" =>
                      (Len(http) = 1 /\ http[1].status = 500)
            /\ fault = <<>> => (raised = <<>> /\ pc # "failed"))
    /\ [][(mode = "ask" /\ fault # <<>>) => UNCHANGED vars]_vars

\* a failure of the re-ranker behind POST /ask, and one of the scoring
C6_Witness ==
    /\ mode = "ask" /\ via = "route" /\ pc = "failed"
    /\ Last(calls) = "rerank"
    /\ Len(raised) = 1 /\ http # <<>>

C6_WitnessScoring ==
    /\ mode = "ask" /\ pc = "failed"
    /\ fault = <<OverflowError>>
    /\ Last(calls) = "gen_answer" /\ answer # ""

\* the retrieval of a generate_answer call has finished and found nothing
RetrievedNothing ==
    /\ mode = "ask" /\ req.use_rag
    /\ CountCalls("search") > 0 /\ pending = 0 /\ pc # "merge"
    /\ docs = <<>>

\* C7: when the retrieval finds no passage, generate_answer does not fail
\* for that: the re-ranker is not called, the answer Generator is called
\* once, and the dictionary returned has no sources, confidence 0.0 and
\* is_grounded False; only a failure of the answer Generator ends it early.
C7_EmptyRetrieval ==
    RetrievedNothing =>
        /\ pc \in {"rerank", "generate", "score", "validate", "done", "failed"}
        /\ CountCalls("rerank") = 0
        /\ CountCalls("gen_validate") = 0
        /\ pc = "failed" => Last(calls) = "gen_answer"
        /\ pc = "done" =>
             /\ CountCalls("gen_answer") = 1
             /\ result[1].sources = <<>>
             /\ result[1].confidence = 0
             /\ result[1].is_grounded = FALSE
             /\ result[1].answer = answer

C7_Witness ==
    /\ RetrievedNothing /\ pc = "done"
    /\ req.filters
    /\ Len(result) = 1 /\ result[1].sources = <<>>

\* C8: the re-ranked list has at most 5 passages in non-increasing order of
\* relevance score, and the sources of every dictionary returned by
\* generate_answer follow it entry by entry.
C8_RerankedOrder ==
    /\ Len(context) <= TopN
    /\ NonIncreasing([i \in 1..Len(context) |-> GetScore(context[i])])
    /\ (mode = "ask" /\ pc = "done" /\ req.use_rag) =>
          /\ Len(result[1].sources) = Len(context)
          /\ Len(result[1].sources) <= TopN
          /\ \A i \in 1..Len(context) :
                /\ result[1].sources[i].snippet.doc = context[i].id
                /\ result[1].sources[i].relevance_score = GetScore(context[i])
          /\ NonIncreasing([i \in 1..Len(context) |->
                               result[1].sources[i].relevance_score])

\* more passages retrieved than kept, scores that differ, and an order that
\* is not the order of retrieval
C8_Witness ==
    /\ mode = "ask" /\ pc = "done" /\ req.use_rag
    /\ Len(docs) > TopN
    /\ Len(result[1].sources) = TopN
    /\ result[1].sources[1].relevance_score > result[1].sources[TopN].relevance_score
    /\ context[1].id > context[2].id

\* C9: when the Generator call of validate_answer fails, generate_answer
\* still returns: the dictionary holds the answer, the sources and the
\* confidence computed before, and is_grounded False; nothing is raised.
C9_ValidationFailClosed ==
    (validation # <<>> /\ ~validation[1].ok) =>
        /\ pc = "done"
        /\ fault = <<>> /\ raised = <<>>
        /\ Last(calls) = "gen_validate"
        /\ Len(result) = 1
        /\ result[1].is_grounded = FALSE
        /\ result[1].answer = answer
        /\ result[1].sources = AskSources(context)
        /\ result[1].confidence = confidence

C9_Witness ==
    /\ validation # <<>> /\ ~validation[1].ok
    /\ pc = "done" /\ via = "route"
    /\ context # <<>>
    /\ result[1].confidence > 0
    /\ http # <<>> /\ http[1].status = 200

\* C10: the error generate_answer raises is the connectivity error exactly
\* when the stage failed because a capability was unreachable.
C10_ConnectivityDistinct ==
    (mode = "ask" /\ pc = "failed") =>
        (raised[1].message = "Connection to Ollama failed"
            <=> fault[1].kind = "connectivity")

-----------------------------------------------------------------------------
\* C11: an Ask whose query is empty or only whitespace is rejected before
\* any Embedder, VectorIndex, Generator or Reranker call: no call is ever
\* logged for it, it never produces a result, and once it has ended it has
\* ended as rejected.  generate_answer and ask_question do not look at the
\* query, so this fails for a blank text query.
C11_BlankRejected ==
    (mode = "ask" /\ StripQuery(req.query) = "") =>
        /\ calls = <<>>
        /\ result = <<>>
        /\ pc \notin {"done", "failed"}

\* C12: a generate_answer call with use_rag = False goes from its start to
\* the direct generation and from there to its end, and makes exactly one
\* Generator call: nothing is reformulated, embedded, searched, re-ranked,
\* scored or validated, whatever the history, the filter and the two
\* strategy flags.
C12_DirectPath ==
    (mode = "ask" /\ ~req.use_rag) =>
        /\ pc \in {"direct", "done", "failed"}
        /\ calls = IF pc = "direct" THEN <<>> ELSE <<"gen_direct">>
        /\ embedded = {} /\ lists = <<>> /\ docs = <<>> /\ context = <<>>
        /\ confidence = 0 /\ validation = <<>>

C12_Witness ==
    /\ mode = "ask" /\ ~req.use_rag /\ pc = "done"
    /\ req.chat_history # <<>> /\ req.filters
    /\ req.enable_query_expansion /\ req.enable_hyde
    /\ calls = <<"gen_direct">>

\* C13: every Source handed to the caller, in the sources of a returned
\* generate_answer result and in the sources event of generate_answer_stream,
\* is made from one re-ranked passage, in rank order, and has the five
\* fields source (the basename of the passage's source), page, snippet (the
\* first 200 characters and an ellipsis), relevance_score and citation
\* "<source> (p. <page>)"; both operations so build the same Source from
\* the same passage.  The sources event has three fields only and carries
\* the source as stored.
C13_SameSource ==
    LET IsSourceOf(s, doc) ==
            /\ DOMAIN s = {"source", "page", "snippet", "relevance_score",
                           "citation"}
            /\ s.source = Basename(IF HasSource(doc.id) THEN DocSource(doc.id)
                                   ELSE <<"unknown">>)
            /\ s.page = (IF HasPage(doc.id) THEN DocPage(doc.id) ELSE 0)
            /\ s.snippet.doc = doc.id
            /\ s.snippet.chars = Min(DocLen(doc.id), SnippetLen)
            /\ s.snippet.ellipsis
            /\ s.relevance_score = GetScore(doc)
            /\ s.citation = <<s.source, " (p. ", s.page, ")">>
        AreSourcesOf(ss, ds) ==
            /\ Len(ss) = Len(ds)
            /\ \A i \in 1..Len(ss) : IsSourceOf(ss[i], ds[i])
    IN  /\ (mode = "ask" /\ req.use_rag /\ pc = "done") =>
               AreSourcesOf(result[1].sources, context)
        /\ \A k \in 1..Len(events) :
               events[k].type = "sources" => AreSourcesOf(events[k].data, context)

\* C15: with query expansion, the merged passages hold exactly one passage
\* for each distinct (source, page, content) found by any of the paraphrase
\* searches, that passage carries the highest relevance score seen for its
\* key, and the merged sequence is fixed by the queries and what each found
\* (a passage comes before another when it was first found by an earlier
\* query, or earlier in the same result), not by the order in which the
\* searches returned.  unique_union compares whole Documents, so two chunks
\* with the same key and different chunk_index are both kept.
C15_MergedOncePerKey ==
    [][ pc = "merge" =>
        LET merged == docs'
            Found  == {<<i, k>> : i \in 1..Len(lists), k \in 1..NumDocs + 1}
            At(p)  == lists[p[1]].found[p[2]]
            Finds  == {p \in Found : p[2] <= Len(lists[p[1]].found)}
            Before(p, q) == p[1] < q[1] \/ (p[1] = q[1] /\ p[2] < q[2])
            First(d) == CHOOSE p \in Finds :
                            /\ Key(At(p)) = Key(d)
                            /\ \A q \in Finds :
                                   Key(At(q)) = Key(d) => (p = q \/ Before(p, q))
        IN  /\ \A i, j \in 1..Len(merged) :
                   i < j => Key(merged[i]) # Key(merged[j])
            /\ \A p \in Finds : \E i \in 1..Len(merged) : Key(merged[i]) = Key(At(p))
            /\ \A i \in 1..Len(merged) :
                   /\ \E p \in Finds : At(p) = merged[i]
                   /\ \A p \in Finds :
                          Key(At(p)) = Key(merged[i]) =>
                              GetScore(merged[i]) >= GetScore(At(p))
            /\ \A i, j \in 1..Len(merged) :
                   i < j => Before(First(merged[i]), First(merged[j]))
      ]_vars

\* C16: in a generate_answer call with enable_hyde = True and an empty
\* converted history, the retrieval makes its calls in this order: one
\* Generator call that writes a hypothetical paragraph, one Embedder call
\* given that paragraph and not the query text, one VectorIndex search; no
\* other call comes before or between them and none of the three is
\* repeated.
C16_HydeRetrieval ==
    (mode = "ask" /\ req.use_rag /\ req.enable_hyde /\ lc_history = <<>>) =>
        LET stage == <<"gen_hyde", "embed", "search">>
            n     == Min(Len(calls), 3)
        IN  /\ SubSeq(calls, 1, n) = SubSeq(stage, 1, n)
            /\ \A name \in {"gen_hyde", "embed", "search"} : CountCalls(name) <= 1
            /\ CountCalls("gen_queries") = 0 /\ CountCalls("gen_reformulate") = 0
            /\ embedded = IF CountCalls("embed") = 0 THEN {}
                          ELSE {"hypothetical paragraph"}
            /\ req.query \notin embedded
            /\ pc \in {"rerank", "generate", "score", "validate", "done"} =>
                   Len(calls) >= 3

C16_Witness ==
    /\ mode = "ask" /\ req.use_rag /\ req.enable_hyde /\ req.chat_history = <<>>
    /\ pc = "done"
    /\ SubSeq(calls, 1, 3) = <<"gen_hyde", "embed", "search">>
    /\ embedded = {"hypothetical paragraph"}

\* C17: _calculate_confidence applied to an empty passage list returns
\* exactly 0.0 and divides nothing: the scoring step of a request whose
\* re-ranked context is empty always succeeds, leaves the confidence at 0.0
\* and goes on to the validation, and the result carries confidence 0.0.
C17_EmptyConfidence ==
    /\ [][(pc = "score" /\ context = <<>>) =>
             /\ ~calculate_confidence_raises(context)
             /\ confidence' = 0
             /\ pc' = "validate"
             /\ fault' = <<>> /\ raised' = <<>>]_vars
    /\ [](( mode = "ask" /\ req.use_rag /\ context = <<>> /\ pc = "done") =>
             (calculate_confidence(context) = 0 /\ result[1].confidence = 0))

C17_Witness ==
    /\ mode = "ask" /\ req.use_rag /\ pc = "done"
    /\ CountCalls("search") > 0 /\ context = <<>>
    /\ result[1].confidence = 0

\* C18: validate_answer called with an empty context returns False for
\* every answer and whatever the Generator would have said, and does not
\* call the Generator: the validation step of such a request adds no call,
\* records no Generator reply, and returns is_grounded False.
C18_EmptyContextUngrounded ==
    /\ [][(pc = "validate" /\ context = <<>>) =>
             /\ calls' = calls
             /\ validation' = <<>>
             /\ Len(result') = 1 /\ result'[1].is_grounded = FALSE
             /\ result'[1].answer = answer]_vars
    /\ [](/\ ~validate_answer_calls(<<>>)
          /\ \A outcome \in ValidationOutcomes : ~validate_answer(<<>>, outcome))

C18_Witness ==
    /\ mode = "ask" /\ req.use_rag /\ pc = "done" /\ context = <<>>
    /\ answer = "the limit is five"
    /\ result[1].is_grounded = FALSE
    /\ Last(calls) = "gen_answer"

\* C20: with an empty history (the converted one, which is what the chain is
\* given) no reformulation call is made and the retriever is handed the
\* caller's query as it is; with a non-empty history exactly one
\* reformulation call is made, before every other call, and the retriever is
\* handed what that call returned.  The plain retriever embeds just that
\* text.
C20_Reformulation ==
    (mode # "none" /\ req.use_rag /\ pc # "rejected") =>
        LET n    == CountCalls("gen_reformulate")
            past == pc \in {"hyde", "expand", "retrieve", "merge", "rerank",
                            "generate", "sources", "score", "validate", "done",
                            "abandoned", "cancelled"}
                    \/ Len(calls) > n
        IN  /\ lc_history = <<>> =>
                /\ n = 0
                /\ past => question = req.query
            /\ lc_history # <<>> =>
                /\ n <= 1
                /\ calls # <<>> => calls[1] = "gen_reformulate"
                /\ past => (n = 1 /\ question = "standalone question")
                /\ pc \in {"failed", "closed"} => n = 1
            /\ ~past => (question = "" /\ embedded = {})
            /\ chain.strategy = "plain" => embedded \subseteq {question}

C20_Witness ==
    /\ mode = "ask" /\ pc = "done" /\ req.use_rag
    /\ req.chat_history = <<"user", "assistant">>
    /\ ~req.enable_hyde /\ ~req.enable_query_expansion
    /\ CountCalls("gen_reformulate") = 1
    /\ question = "standalone question" /\ embedded = {"standalone question"}

C20_WitnessEmpty ==
    /\ mode = "ask" /\ pc = "done" /\ req.use_rag
    /\ req.chat_history = <<>> /\ req.query \in Queries
    /\ ~req.enable_hyde /\ ~req.enable_query_expansion
    /\ CountCalls("gen_reformulate") = 0
    /\ embedded = {req.query}

\* C19: in a generate_answer call with use_rag = True the stages run one
\* after another in the order reformulating, retrieving, re-ranking,
\* generating, scoring, validating.  Every step either ends the request or
\* moves from a stage to itself (retrieval only) or to the stage that
\* follows; the logged calls are in stage order; the re-ranker is called
\* only when every search is back and merged, the confidence is computed and
\* the grounding call made only with the answer complete; a request that is
\* done made its calls in exactly this order.
C19_StageOrder ==
    /\ [][(mode = "ask" /\ req.use_rag /\ pc # "idle") =>
             \/ pc' = "failed"
             \/ <<pc, pc'>> \in
                  {<<"reformulate", "hyde">>, <<"reformulate", "expand">>,
                   <<"reformulate", "retrieve">>, <<"hyde", "retrieve">>,
                   <<"expand", "retrieve">>, <<"retrieve", "retrieve">>,
                   <<"retrieve", "merge">>, <<"retrieve", "rerank">>,
                   <<"merge", "rerank">>, <<"rerank", "generate">>,
                   <<"generate", "score">>, <<"score", "validate">>,
                   <<"validate", "done">>}]_vars
    /\ [][(mode = "ask" /\ req.use_rag /\ confidence' # confidence) =>
             (pc = "score" /\ CountCalls("gen_answer") = 1
                           /\ answer \in Answers /\ answer' = answer)]_vars
    /\ [](LET Rank(name) ==
                  CASE name = "gen_reformulate" -> 1
                    [] name \in {"gen_hyde", "gen_queries", "embed", "search"} -> 2
                    [] name = "rerank" -> 3
                    [] name = "gen_answer" -> 4
                    [] name = "gen_validate" -> 6
                    [] OTHER -> 0
          IN (mode = "ask" /\ req.use_rag) =>
               /\ \A i, j \in 1..Len(calls) :
                      i < j => (Rank(calls[i]) > 0 /\ Rank(calls[i]) <= Rank(calls[j]))
               /\ \A name \in {"gen_reformulate", "rerank", "gen_answer",
                               "gen_validate"} : CountCalls(name) <= 1
               /\ CountCalls("search") <= CountCalls("embed")
               /\ (pc \in {"generate", "score", "validate", "done"}
                   \/ CountCalls("rerank") > 0) =>
                      (pending = 0 /\ lists = <<>> /\ CountCalls("search") > 0)
               /\ pc \in {"score", "validate"} =>
                      (Last(calls) = "gen_answer" /\ answer \in Answers)
               /\ pc = "done" =>
                      /\ CountCalls("gen_answer") = 1
                      /\ CountCalls("rerank") = (IF docs = <<>> THEN 0 ELSE 1)
                      /\ CountCalls("gen_validate") = (IF context = <<>> THEN 0 ELSE 1)
                      /\ CountCalls("gen_reformulate") = (IF lc_history = <<>> THEN 0 ELSE 1))

C19_Witness ==
    /\ mode = "ask" /\ req.use_rag /\ pc = "done"
    /\ calls = <<"gen_reformulate", "gen_queries", "embed", "embed", "search",
                 "search", "rerank", "gen_answer", "gen_validate">>

\* C14: requests running at the same time on one service are independent:
\* no step changes an attribute of the service, a step of one request
\* changes the variables of that request only, and whatever the
\* interleaving every finished request has returned (or yielded) exactly
\* what it returns when it runs alone.
C14_Independent ==
    /\ [][service' = service]_vars
    /\ [][\A t, u \in Tasks :
             (t # u /\ tasks'[t] # tasks[t]) => tasks'[u] = tasks[u]]_vars
    /\ [](\A t \in Tasks :
             /\ tasks[t].pc # "idle" =>
                  /\ tasks[t].lc_history = ConvertHistory(tasks[t].req.chat_history)
                  /\ tasks[t].chain.filter = tasks[t].req.filters
             /\ tasks[t].pc \in {"done", "failed", "closed"} =>
                  tasks[t].out = Alone(tasks[t].mode, tasks[t].req,
                                       service.annotates, tasks[t].failed))

C14_Witness ==
    /\ tasks[1].pc = "done" /\ tasks[2].pc = "closed"
    /\ tasks[1].req.filters /\ ~tasks[2].req.filters
    /\ tasks[1].req.chat_history # tasks[2].req.chat_history
    /\ tasks[1].req.enable_query_expansion # tasks[2].req.enable_query_expansion
    /\ Len(tasks[1].out[1].sources) = 1
    /\ Len(tasks[2].out[1].data) > 1

C14_WitnessInFlight ==
    /\ tasks[1].pc = "rerank" /\ tasks[2].pc = "retrieve"
    /\ tasks[1].req.filters # tasks[2].req.filters

\* C21: when the Generator call of the reformulation fails, the request
\* fails with that error (raised by generate_answer, or as the error event
\* of the stream): the retriever is handed nothing, not the caller's query
\* either, and no Embedder call, index search, re-ranker call or answer
\* generation follows.
C21_ReformulationFailure ==
    /\ [][(pc = "reformulate" /\ fault' # <<>>) =>
             /\ calls' = Append(calls, "gen_reformulate")
             /\ pc' = (IF mode = "ask" THEN "failed" ELSE "closed")
             /\ question' = "" /\ lists' = <<>> /\ pending' = 0
             /\ IF mode = "ask"
                THEN raised' = <<RagError(fault'[1])>> /\ result' = <<>>
                ELSE events' = <<[type |-> "error", data |-> fault'[1]]>>]_vars
    /\ [][(fault # <<>> /\ calls = <<"gen_reformulate">>) => calls' = calls]_vars
    /\ []((fault # <<>> /\ calls = <<"gen_reformulate">>) =>
             /\ pc \in {"failed", "closed"}
             /\ embedded = {} /\ docs = <<>> /\ context = <<>> /\ answer = "")

C21_Witness ==
    /\ mode = "ask" /\ pc = "failed"
    /\ lc_history # <<>> /\ calls = <<"gen_reformulate">>
    /\ fault # <<>> /\ raised = <<RagError(fault[1])>>
    /\ req.enable_query_expansion

C21_WitnessStream ==
    /\ mode = "stream" /\ pc = "closed"
    /\ calls = <<"gen_reformulate">> /\ fault # <<>>
    /\ events = <<[type |-> "error", data |-> fault[1]]>>

\* C22: with a non-empty context and a Generator call that succeeds,
\* validate_answer returns True exactly when the response contains "yes",
\* letters compared without regard to case: three adjacent characters y, e,
\* s in either case, anywhere in the response.
C22_GroundedIffYes ==
    LET ContainsYes(r) ==
            \E i \in 1..(Len(r) - 2) :
                /\ r[i] \in {"y", "Y"}
                /\ r[i + 1] \in {"e", "E"}
                /\ r[i + 2] \in {"s", "S"}
    IN  /\ \A r \in ValidationResponses :
               validate_answer(<<Passage(1)>>, [ok |-> TRUE, response |-> r])
                   = ContainsYes(r)
        /\ (mode = "ask" /\ pc = "done" /\ context # <<>>
            /\ validation # <<>> /\ validation[1].ok) =>
               result[1].is_grounded = ContainsYes(validation[1].response)

C22_Witness ==
    /\ mode = "ask" /\ pc = "done" /\ context # <<>>
    /\ validation = <<[ok |-> TRUE, response |-> <<"e", "Y", "e", "S">>]>>
    /\ result[1].is_grounded

C22_WitnessNo ==
    /\ mode = "ask" /\ pc = "done" /\ context # <<>>
    /\ validation = <<[ok |-> TRUE, response |-> <<"y", "e", " ", "s">>]>>
    /\ ~result[1].is_grounded

\* C23: generate_answer_stream never computes a confidence and never
\* validates the answer: in every stream no validation call is made, the
\* request is never in the scoring or validating stage, no event and no
\* source in an event has a confidence or is_grounded field, and the only
\* call after the retrieval and re-ranking is the one answer generation.
C23_StreamUnscored ==
    mode = "stream" =>
        /\ pc \notin {"direct", "score", "validate", "done"}
        /\ CountCalls("gen_validate") = 0 /\ validation = <<>>
        /\ confidence = 0 /\ result = <<>>
        /\ CountCalls("gen_answer") <= 1
        /\ \A i \in 1..Len(calls) :
               calls[i] = "gen_answer" => i = Len(calls)
        /\ pc \in {"streaming", "closed"} /\ fault = <<>> =>
               Last(calls) = "gen_answer"
        /\ \A k \in 1..Len(events) :
               /\ DOMAIN events[k] = {"type", "data"}
               /\ events[k].type \in {"sources", "token", "error"}
               /\ events[k].type = "sources" =>
                      \A i \in 1..Len(events[k].data) :
                          {"confidence", "is_grounded"}
                              \cap DOMAIN events[k].data[i] = {}

C23_Witness ==
    /\ mode = "stream" /\ pc = "closed" /\ fault = <<>>
    /\ context # <<>>
    /\ CountEvents({"token"}) = MaxTokens
    /\ CountCalls("rerank") = 1 /\ Last(calls) = "gen_answer"

\* C25: a request that retrieves uses exactly one retrieval strategy, fixed
\* by its two flags: "hyde" when enable_hyde is set (whatever
\* enable_query_expansion says), otherwise "multi_query" when
\* enable_query_expansion is set, otherwise "plain"; the hypothetical
\* passage is generated only under "hyde", paraphrases only under
\* "multi_query", and with both flags set no paraphrase call is ever made.
C25_OneStrategy ==
    /\ chain = NoChain =>
           /\ CountCalls("gen_hyde") = 0 /\ CountCalls("gen_queries") = 0
           /\ pc \notin {"hyde", "expand", "merge", "retrieve", "rerank"}
    /\ chain # NoChain =>
           /\ req # NoReq
           /\ chain.strategy =
                  (IF req.enable_hyde THEN "hyde"
                   ELSE IF req.enable_query_expansion THEN "multi_query"
                   ELSE "plain")
           /\ (CountCalls("gen_hyde") > 0 \/ pc = "hyde") =>
                  chain.strategy = "hyde"
           /\ (CountCalls("gen_queries") > 0 \/ pc \in {"expand", "merge"}) =>
                  chain.strategy = "multi_query"
           /\ CountCalls("gen_hyde") <= 1 /\ CountCalls("gen_queries") <= 1
           /\ (req.enable_hyde /\ req.enable_query_expansion) =>
                  CountCalls("gen_queries") = 0
           /\ (pc \in {"rerank", "score", "validate", "sources", "streaming"}
                 /\ CountCalls("rerank") <= 1) =>
                  /\ chain.strategy = "hyde" <=> CountCalls("gen_hyde") = 1
                  /\ chain.strategy = "multi_query" <=>
                         CountCalls("gen_queries") = 1

C25_Witness ==
    /\ req # NoReq /\ req.enable_hyde /\ req.enable_query_expansion
    /\ pc \in {"done", "closed"} /\ fault = <<>>
    /\ CountCalls("gen_hyde") = 1 /\ context # <<>>

C25_WitnessExpansion ==
    /\ req # NoReq /\ ~req.enable_hyde /\ req.enable_query_expansion
    /\ pc \in {"done", "closed"} /\ fault = <<>>
    /\ CountCalls("gen_queries") = 1 /\ context # <<>>

\* C26: the history the pipeline works with is the caller's chat_history
\* restricted to the entries whose role is "user" or "assistant", in the
\* caller's order (a HumanMessage for "user", an AIMessage for
\* "assistant"); dropping the other entries raises nothing, the caller's list
\* stays as it was, and a history of unrecognised roles only is handled as
\* an empty one: the question is never reformulated.
C26_HistoryFiltered ==
    /\ [](req # NoReq =>
            /\ Len(lc_history) =
                   Cardinality({i \in 1..Len(req.chat_history) :
                                   req.chat_history[i] \in {"user", "assistant"}})
            /\ \E f \in [1..Len(lc_history) -> 1..Len(req.chat_history)] :
                   /\ \A i, j \in 1..Len(lc_history) : i < j => f[i] < f[j]
                   /\ \A i \in 1..Len(lc_history) :
                          \/ req.chat_history[f[i]] = "user"
                                /\ lc_history[i] = "HumanMessage"
                          \/ req.chat_history[f[i]] = "assistant"
                                /\ lc_history[i] = "AIMessage"
            /\ (\A i \in 1..Len(req.chat_history) :
                    req.chat_history[i] \notin {"user", "assistant"}) =>
                   /\ lc_history = <<>>
                   /\ CountCalls("gen_reformulate") = 0
                   /\ pc # "reformulate" => question \in {"", req.query}
            /\ (pc \in {"reformulate", "direct"} /\ calls = <<>>) =>
                   fault = <<>> /\ raised = <<>> /\ events = <<>>)
    /\ [][req # NoReq =>
            /\ req' # NoReq
            /\ req'.chat_history = req.chat_history
            /\ lc_history' = lc_history]_vars

C26_Witness ==
    /\ req # NoReq /\ req.chat_history = <<"assistant", "system", "user">>
    /\ lc_history = <<"AIMessage", "HumanMessage">>
    /\ pc \in {"done", "closed"} /\ fault = <<>>
    /\ CountCalls("gen_reformulate") = 1

C26_WitnessUnknownOnly ==
    /\ req # NoReq /\ req.chat_history = <<"system">>
    /\ pc \in {"done", "closed"} /\ fault = <<>>
    /\ context # <<>> /\ CountCalls("gen_reformulate") = 0

\* C24: once the consumer of a stream has gone away, token production stops:
\* no further event is produced, no further Generator call is made or
\* consumed, and nothing is still working for the request.
C24_CancelStops ==
    [][(pc \in {"abandoned", "cancelled"}) =>
          (events' = events /\ calls' = calls /\ embedded' = embedded)]_vars

\* the part of C24 that the code does satisfy: no event follows the
\* cancellation
C24_NoEventAfterCancel ==
    [][(pc \in {"abandoned", "cancelled"}) => events' = events]_vars

C24_WitnessCancelledTokens ==
    /\ pc = "cancelled"
    /\ CountEvents({"token"}) = 1 /\ Last(calls) = "gen_answer"

\* C27: a call on a file whose hash is a key of the cache returns the stored
\* result without preprocessing and without running the speech model, and
\* once calls have returned, every file that was transcribed has its hash in
\* the cache, whether the recording is short or long.
C27_TranscribedIsCached ==
    stt_pc = "idle" => \A h \in transcribed : cache[h] # <<>>

\* the parts of C27 the code satisfies: a cached result is returned as it is
\* stored, at once, and a long recording that was transcribed is in the cache
C27_HitAndLongCached ==
    /\ [](stt_pc = "idle" /\ "sha-long" \in transcribed =>
              cache["sha-long"] # <<>> /\ runs["sha-long"] >= 1)
    /\ [][(stt_pc = "idle" /\ stt_pc' = "idle" /\ stt_out'.kind = "return") =>
              /\ \E h \in Hashes : cache[h] = <<stt_out'>>
              /\ UNCHANGED <<cache, files, runs, transcribed>>]_vars

C27_WitnessShortTwice ==
    /\ stt_pc = "idle" /\ runs["sha-short"] = 2
    /\ "sha-short" \in transcribed /\ cache["sha-short"] = <<>>

\* C28: once transcribe_audio has returned or raised, whatever path it took,
\* no temporary file made by preprocess_audio or _transcribe_chunked is
\* left, and the caller's audio file is still there.
C28_TempFilesRemoved ==
    stt_pc = "idle" => files = {AudioFile(n) : n \in Uploaded}

\* the parts of C28 the code satisfies: the caller's files are never
\* removed, no chunk file outlives its chunk, and the processed file of a
\* successful preprocessing is removed
C28_OriginalKept ==
    /\ \A n \in Uploaded : AudioFile(n) \in files
    /\ stt_pc = "idle" =>
           \A f \in files :
               /\ f.kind # "chunk"
               /\ f.kind = "processed" => TempFile("temp_wav", f.call) \in files

C28_WitnessLeak ==
    /\ stt_pc = "idle" /\ stt_out.kind = "return"
    /\ \E f \in files : f.kind = "temp_wav"

====
